---- MODULE Spec2Model ----
(***************************************************************************)
(* analyze_clips_advanced (src/analyze_clip_sizes.py): one run of the      *)
(* batch analysis, as a state machine.  The scan loop is cut at the three  *)
(* places where a file's processing can raise (stat/open, reading the      *)
(* metadata, close); the report is cut at the places where it can raise.   *)
(*                                                                         *)
(* Numbers.  Python computes in floats; the model computes exact           *)
(* rationals as scaled integers:                                           *)
(*   - a rate (bytes_per_second, bitrate) is stored as rate * Unit, where  *)
(*     every positive duration of the model divides Unit;                  *)
(*   - fps is stored in hundredths of a frame per second;                  *)
(*   - a quartile is stored as 4 * quartile (the numerator that            *)
(*     statistics.quantiles divides by n = 4);                             *)
(*   - means are compared by cross-multiplication of (sum, count).         *)
(* An absent value (Python None) is the empty sequence <<>>, a present one *)
(* the one-element sequence <<v>> (fps) or the pair <<w, h>> (size).       *)
(***************************************************************************)
EXTENDS Integers, Sequences, FiniteSets, TLC

\* ---------------------------------------------------------------- bounds

MaxFiles == 6
MaxScanFiles == 3
MaxSize == 5
MaxDur == 4

\* ------------------------------------------------------ program constants

\* "if len(bps_list) >= 3"
MinSamples == 3
\* "> 10" on a percentage difference
FindingPct == 10
\* "> 20" on the audio percentage-point difference
AudioPts == 20
\* 1.5 * iqr, as the fraction FenceNum / FenceDen
FenceNum == 3
FenceDen == 2
\* statistics.quantiles(..., n=4)
NQuant == 4
\* high_outliers[:10], low_outliers[:10]
ShowMax == 10
\* fps is kept in hundredths: 2997 is 29.97 frames per second
FpsScale == 100

\* ---------------------------------------------------------------- helpers

RECURSIVE Fact(_)
Fact(n) == IF n <= 1 THEN 1 ELSE n * Fact(n - 1)

\* every duration in 1..MaxDur divides Unit
Unit == Fact(MaxDur)

Abs(x) == IF x < 0 THEN 0 - x ELSE x

Min2(a, b) == IF a <= b THEN a ELSE b

RECURSIVE SumSeq(_)
SumSeq(s) == IF s = <<>> THEN 0 ELSE Head(s) + SumSeq(Tail(s))

RECURSIVE MinSeq(_)
MinSeq(s) == IF Len(s) = 1 THEN s[1] ELSE Min2(s[1], MinSeq(Tail(s)))

RECURSIVE MaxSeq(_)
MaxSeq(s) == IF Len(s) = 1 THEN s[1]
             ELSE LET m == MaxSeq(Tail(s)) IN IF s[1] >= m THEN s[1] ELSE m

RECURSIVE Insert(_, _)
Insert(x, s) == IF s = <<>> THEN <<x>>
                ELSE IF x <= Head(s) THEN <<x>> \o s
                ELSE <<Head(s)>> \o Insert(x, Tail(s))

\* sorted(data)
RECURSIVE Sorted(_)
Sorted(s) == IF s = <<>> THEN <<>> ELSE Insert(Head(s), Sorted(Tail(s)))

Front(s) == SubSeq(s, 1, Len(s) - 1)

Last(s) == s[Len(s)]

\* all sequences over S of length lo..hi
SeqsUpTo(S, lo, hi) == UNION {[1..n -> S] : n \in lo..hi}

\* ------------------------------------------------------------- the inputs

\* What one matched file does when it is scanned: "fail" is the step that
\* raises ("none": no step), the other fields are what stat() and the
\* metadata reader return.
File(fail, size, duration, fps, res, audio) ==
    [fail |-> fail, st_size |-> size, duration |-> duration, fps |-> fps,
     size |-> res, audio |-> audio]

FailKinds == {"none", "stat", "open", "meta", "close"}

\* an ordinary clip: 2 bytes/s, 29.97 fps, 2x1 pixels, audio
ClipN == File("none", 4, 2, <<2997>>, <<2, 1>>, TRUE)
\* a zero-duration clip of unknown size, no audio: 0 bytes/s
ClipZ == File("none", 4, 0, <<2997>>, <<>>, FALSE)
\* a heavy clip: 16 bytes/s, 60 fps, 4x2 pixels, no audio
ClipH == File("none", 16, 1, <<6000>>, <<4, 2>>, FALSE)
\* a heavy clip whose frame rate the reader cannot determine
ClipX == File("none", 16, 1, <<>>, <<2, 1>>, TRUE)

Profiles == {ClipN, ClipZ, ClipH, ClipX}

ScanProfiles == {File(k, 4, 2, <<2997>>, <<2, 1>>, TRUE) : k \in FailKinds}

BuildProfiles ==
    {File("none", s, d, f, <<2, 1>>, TRUE) :
        s \in 0..MaxSize, d \in (0 - 1)..MaxDur, f \in {<<>>, <<2997>>}}

\* ------------------------------------------------------------------ state

VARIABLES
    dir_exists,     \* directory.exists()
    mp4_files,      \* list(directory.glob("*.mp4")), as file behaviours
    pc,             \* where the run is
    i,              \* 1-based index of video_file in mp4_files
    clips_data,     \* the records
    errors,         \* the per-file errors
    file_count,     \* the success counter
    open_handles,   \* indices of the files whose VideoFileClip is open
    res_groups,     \* resolution -> bytes_per_second samples
    fps_groups,     \* rounded fps -> samples
    audio_groups,   \* with_audio / without_audio -> samples
    reported,       \* the group keys whose statistics line was printed
    quart,          \* <<4*q1, 4*q3>> once computed, <<>> before
    high_outliers,
    low_outliers,
    normal_clips,
    diagnosed,      \* the outlier classes compared against the normal clips
    findings,       \* the fields appended to findings
    outcome,        \* how the run ended
    fault_line      \* the source line that raised out of the function, or 0

vars == <<dir_exists, mp4_files, pc, i, clips_data, errors, file_count,
          open_handles, res_groups, fps_groups, audio_groups, reported, quart,
          high_outliers, low_outliers, normal_clips, diagnosed, findings,
          outcome, fault_line>>

scan_vars == <<clips_data, errors, file_count, open_handles>>

report_vars == <<res_groups, fps_groups, audio_groups, reported, quart,
                 high_outliers, low_outliers, normal_clips, diagnosed,
                 findings>>

NoGroups == [k \in {} |-> <<>>]

NoReport == [res |-> {}, fps |-> {}, audio |-> {}]

InitRest ==
    /\ pc = "start"
    /\ i = 1
    /\ clips_data = <<>>
    /\ errors = <<>>
    /\ file_count = 0
    /\ open_handles = {}
    /\ res_groups = NoGroups
    /\ fps_groups = NoGroups
    /\ audio_groups = NoGroups
    /\ reported = NoReport
    /\ quart = <<>>
    /\ high_outliers = <<>>
    /\ low_outliers = <<>>
    /\ normal_clips = <<>>
    /\ diagnosed = {}
    /\ findings = {}
    /\ outcome = "running"
    /\ fault_line = 0

\* a directory of up to MaxFiles readable clips, or no directory
Init ==
    /\ mp4_files \in SeqsUpTo(Profiles, 0, MaxFiles)
    /\ dir_exists \in BOOLEAN
    /\ dir_exists \/ mp4_files = <<>>
    /\ InitRest

\* a directory of up to MaxScanFiles clips, each failing at any step or none
InitScan ==
    /\ mp4_files \in SeqsUpTo(ScanProfiles, 0, MaxScanFiles)
    /\ dir_exists = TRUE
    /\ InitRest

\* a directory of one clip of any size and duration
InitBuild ==
    /\ mp4_files \in SeqsUpTo(BuildProfiles, 1, 1)
    /\ dir_exists = TRUE
    /\ InitRest

\* ------------------------------------------------------------- the scan

\* return with a message before anything is computed
Return(how) ==
    /\ pc' = "done"
    /\ outcome' = how

Start ==
    /\ pc = "start"
    /\ IF ~dir_exists THEN Return("dir_missing")
       ELSE IF mp4_files = <<>> THEN Return("no_files")
       ELSE pc' = "loop" /\ outcome' = outcome
    /\ UNCHANGED <<dir_exists, mp4_files, i, scan_vars, report_vars, fault_line>>

\* except Exception as e: errors.append(...); the loop goes on
Except ==
    /\ errors' = Append(errors, [filename |-> i])
    /\ pc' = "loop"
    /\ i' = i + 1

\* bitrate and bytes_per_second, times Unit
Bitrate(file_size, duration) ==
    IF duration > 0 THEN (file_size * 8 * Unit) \div duration ELSE 0

\* the guard "duration != 0" in place of "duration > 0"
BytesPerSecondNonzero(file_size, duration) ==
    IF duration # 0 THEN (file_size * Unit) \div duration ELSE 0

BytesPerSecond(file_size, duration) ==
    IF duration > 0 THEN (file_size * Unit) \div duration ELSE 0

PixelsPerFrame(resolution) ==
    IF resolution # <<>> THEN resolution[1] * resolution[2] ELSE 0

\* the dictionary appended to clips_data
Record(name, f) ==
    [filename |-> name,
     file_size |-> f.st_size,
     duration |-> f.duration,
     fps |-> f.fps,
     resolution |-> f.size,
     has_audio |-> f.audio,
     bitrate |-> Bitrate(f.st_size, f.duration),
     bytes_per_second |-> BytesPerSecond(f.st_size, f.duration),
     pixels_per_frame |-> PixelsPerFrame(f.size)]

\* video_file.stat(); VideoFileClip(str(video_file))
OpenFile ==
    /\ pc = "loop"
    /\ i <= Len(mp4_files)
    /\ IF mp4_files[i].fail \in {"stat", "open"}
       THEN Except /\ open_handles' = open_handles
       ELSE /\ open_handles' = open_handles \cup {i}
            /\ pc' = "opened"
            /\ UNCHANGED <<errors, i>>
    /\ UNCHANGED <<dir_exists, mp4_files, clips_data, file_count, report_vars,
                   outcome, fault_line>>

\* read duration, fps, size, audio; derive the metrics; clips_data.append
ReadAndAppend ==
    /\ pc = "opened"
    /\ IF mp4_files[i].fail = "meta"
       THEN Except /\ clips_data' = clips_data
       ELSE /\ clips_data' = Append(clips_data, Record(i, mp4_files[i]))
            /\ pc' = "appended"
            /\ UNCHANGED <<errors, i>>
    /\ UNCHANGED <<dir_exists, mp4_files, file_count, open_handles, report_vars,
                   outcome, fault_line>>

\* clip.close(); file_count += 1
CloseFile ==
    /\ pc = "appended"
    /\ IF mp4_files[i].fail = "close"
       THEN Except /\ UNCHANGED <<open_handles, file_count>>
       ELSE /\ open_handles' = open_handles \ {i}
            /\ file_count' = file_count + 1
            /\ pc' = "loop"
            /\ i' = i + 1
            /\ errors' = errors
    /\ UNCHANGED <<dir_exists, mp4_files, clips_data, report_vars, outcome,
                   fault_line>>

\* the loop is over: "if file_count == 0: ... return"
LoopExit ==
    /\ pc = "loop"
    /\ i > Len(mp4_files)
    /\ IF file_count = 0 THEN Return("no_clips")
       ELSE pc' = "report" /\ outcome' = outcome
    /\ UNCHANGED <<dir_exists, mp4_files, i, scan_vars, report_vars, fault_line>>

\* ------------------------------------------------------------ the groups

\* "if c['fps']": neither None nor 0
Truthy(fps) == fps # <<>> /\ fps[1] # 0

\* round(x) of Python 3 on x = v / FpsScale: to the nearest integer, a tie
\* to the even one
Round(v) ==
    LET q == v \div FpsScale
        r == v % FpsScale
    IN  IF 2 * r < FpsScale THEN q
        ELSE IF 2 * r > FpsScale THEN q + 1
        ELSE IF q % 2 = 0 THEN q ELSE q + 1

\* "groups[key] = [v]" in place of the append
GroupIntoReset(groups, key, v) ==
    IF key \in DOMAIN groups
    THEN [groups EXCEPT ![key] = <<v>>]
    ELSE groups @@ (key :> <<v>>)

\* "if key not in groups: groups[key] = []" then "groups[key].append(v)"
GroupInto(groups, key, v) ==
    IF key \in DOMAIN groups
    THEN [groups EXCEPT ![key] = Append(@, v)]
    ELSE groups @@ (key :> <<v>>)

\* the key is c['resolution']: the pair <<w, h>> stands for the string
\* "{w}x{h}", the empty sequence for "Unknown"
RECURSIVE ResGroups(_)
ResGroups(data) ==
    IF data = <<>> THEN NoGroups
    ELSE GroupInto(ResGroups(Front(data)), Last(data).resolution,
                   Last(data).bytes_per_second)

FpsKey(c) == IF Truthy(c.fps) THEN Round(c.fps[1]) ELSE 0

RECURSIVE FpsGroups(_)
FpsGroups(data) ==
    IF data = <<>> THEN NoGroups
    ELSE GroupInto(FpsGroups(Front(data)), FpsKey(Last(data)),
                   Last(data).bytes_per_second)

AudioKey(c) == IF c.has_audio THEN "with_audio" ELSE "without_audio"

RECURSIVE AudioGroups(_)
AudioGroups(data) ==
    IF data = <<>> THEN [k \in {"with_audio", "without_audio"} |-> <<>>]
    ELSE LET g == AudioGroups(Front(data))
         IN  [g EXCEPT ![AudioKey(Last(data))] =
                  Append(@, Last(data).bytes_per_second)]

\* the resolutions whose line is printed
ResReported(groups) ==
    {k \in DOMAIN groups : Len(groups[k]) >= MinSamples}

\* the per-fps filter without "and fps > 0"
FpsReportedAll(groups) ==
    {k \in DOMAIN groups : Len(groups[k]) >= MinSamples}

\* the frame rates whose line is printed
FpsReported(groups) ==
    {k \in DOMAIN groups : Len(groups[k]) >= MinSamples /\ k > 0}

\* the audio groups whose line is printed
AudioReported(groups) ==
    {k \in DOMAIN groups : groups[k] # <<>>}

\* the statistics, the distributions and the three correlation tables; no
\* step of it can raise once clips_data is not empty
Correlate ==
    /\ pc = "report"
    /\ res_groups' = ResGroups(clips_data)
    /\ fps_groups' = FpsGroups(clips_data)
    /\ audio_groups' = AudioGroups(clips_data)
    /\ reported' = [res |-> ResReported(res_groups'),
                    fps |-> FpsReported(fps_groups'),
                    audio |-> AudioReported(audio_groups')]
    /\ pc' = "detect"
    /\ UNCHANGED <<dir_exists, mp4_files, i, scan_vars, quart, high_outliers,
                   low_outliers, normal_clips, diagnosed, findings, outcome,
                   fault_line>>

\* ---------------------------------------------------------- the outliers

\* an exception leaves analyze_clips_advanced
Fault(line) ==
    /\ pc' = "done"
    /\ outcome' = "fault"
    /\ fault_line' = line

\* bytes_per_sec
BpsList(data) == [k \in 1..Len(data) |-> data[k].bytes_per_second]

\* method='inclusive' in place of the default: one cut point of the
\* inclusive method, times NQuant: position
\* k * (n - 1) / NQuant between the order statistics; d is sorted, 1-based.
InclusiveCut(d, k) ==
    LET m == Len(d) - 1
        j == (k * m) \div NQuant
        delta == (k * m) % NQuant
    IN  IF delta = 0 THEN d[j + 1] * NQuant
        ELSE d[j + 1] * (NQuant - delta) + d[j + 2] * delta

\* One cut point of statistics.quantiles(data, n=NQuant), method
\* 'exclusive' (the default), times NQuant; d is sorted(data), 1-based.
CutPoint(d, k) ==
    LET ld == Len(d)
        m == ld + 1
        j0 == (k * m) \div NQuant
        j == IF j0 < 1 THEN 1 ELSE IF j0 > ld - 1 THEN ld - 1 ELSE j0
        delta == k * m - j * NQuant
    IN  d[j] * (NQuant - delta) + d[j + 1] * delta

\* What statistics.quantiles(data, n=4) can do: the cut points (times
\* NQuant), or <<>> for StatisticsError.  On one data point it raises
\* before Python 3.13 and returns the point three times from 3.13 on.
Quantiles(data) ==
    IF Len(data) < 1 THEN {<<>>}
    ELSE IF Len(data) = 1
    THEN {<<>>, [k \in 1..(NQuant - 1) |-> NQuant * data[1]]}
    ELSE {[k \in 1..(NQuant - 1) |-> CutPoint(Sorted(data), k)]}

\* the fences, times FenceScale; q is <<4*q1, 4*q3>>
FenceScale == NQuant * FenceDen

lower_bound(q) == FenceDen * q[1] - FenceNum * (q[2] - q[1])

upper_bound(q) == FenceDen * q[2] + FenceNum * (q[2] - q[1])

IsLow(c, q) == c.bytes_per_second * FenceScale < lower_bound(q)

\* ">=" in place of ">"
IsHighInclusive(c, q) == c.bytes_per_second * FenceScale >= upper_bound(q)

IsHigh(c, q) == c.bytes_per_second * FenceScale > upper_bound(q)

IsNormal(c, q) ==
    /\ lower_bound(q) <= c.bytes_per_second * FenceScale
    /\ c.bytes_per_second * FenceScale <= upper_bound(q)

Select(data, T(_)) == SelectSeq(data, T)

Outliers(data, q) == LET T(c) == IsLow(c, q) \/ IsHigh(c, q) IN Select(data, T)

HighOf(data, q) == LET T(c) == IsHigh(c, q) IN Select(data, T)

LowOf(data, q) == LET T(c) == IsLow(c, q) IN Select(data, T)

NormalOf(data, q) == LET T(c) == IsNormal(c, q) IN Select(data, T)

\* list.sort(key=bytes_per_second): stable, ascending or reverse
RECURSIVE InsertBy(_, _, _)
InsertBy(x, s, desc) ==
    IF s = <<>> THEN <<x>>
    ELSE IF (IF desc THEN Head(s).bytes_per_second >= x.bytes_per_second
             ELSE Head(s).bytes_per_second <= x.bytes_per_second)
    THEN <<Head(s)>> \o InsertBy(x, Tail(s), desc)
    ELSE <<x>> \o s

RECURSIVE SortBy(_, _)
SortBy(s, desc) ==
    IF s = <<>> THEN <<>> ELSE InsertBy(Last(s), SortBy(Front(s), desc), desc)

\* q1, q3 and the fences
Detect ==
    /\ pc = "detect"
    /\ \E qs \in Quantiles(BpsList(clips_data)) :
         IF qs = <<>>
         THEN Fault(217) /\ quart' = quart
         ELSE /\ quart' = <<qs[1], qs[NQuant - 1]>>
              /\ pc' = "list"
              /\ UNCHANGED <<outcome, fault_line>>
    /\ UNCHANGED <<dir_exists, mp4_files, i, scan_vars, res_groups, fps_groups,
                   audio_groups, reported, high_outliers, low_outliers,
                   normal_clips, diagnosed, findings>>

\* c[:ShowMax] holds a clip whose fps is None: "{c['fps']:.1f}" raises
ShownWithoutFps(s) ==
    \E k \in 1..Min2(Len(s), ShowMax) : s[k].fps = <<>>

\* the outlier listing: high_outliers and low_outliers, each sorted and
\* its first ShowMax clips printed
ListOutliers ==
    /\ pc = "list"
    /\ LET outliers == Outliers(clips_data, quart)
           high == SortBy(HighOf(outliers, quart), TRUE)
           low == SortBy(LowOf(outliers, quart), FALSE)
       IN  IF outliers = <<>>
           THEN /\ pc' = "compare"
                /\ UNCHANGED <<high_outliers, low_outliers, outcome, fault_line>>
           ELSE /\ high_outliers' = high
                /\ IF ShownWithoutFps(high)
                   THEN Fault(237) /\ low_outliers' = low_outliers
                   ELSE /\ low_outliers' = low
                        /\ IF ShownWithoutFps(low)
                           THEN Fault(247)
                           ELSE pc' = "compare" /\ UNCHANGED <<outcome, fault_line>>
    /\ UNCHANGED <<dir_exists, mp4_files, i, scan_vars, res_groups, fps_groups,
                   audio_groups, reported, quart, normal_clips, diagnosed,
                   findings>>

\* ------------------------------------------------- the comparison

\* [c[field] for c in data]
Column(data, field) == [k \in 1..Len(data) |-> data[k][field]]

\* [c['fps'] for c in data if c['fps']]
FpsColumn(data) ==
    LET T(c) == Truthy(c.fps)
        kept == Select(data, T)
    IN  [k \in 1..Len(kept) |-> kept[k].fps[1]]

\* sum(1 for c in data if c['has_audio'])
AudioCount(data) == LET T(c) == c.has_audio IN Len(Select(data, T))

\* The line of the comparison block that raises for these two groups, or
\* 0: statistics.mean of an empty list (StatisticsError) and a division by
\* a normal mean of 0 (ZeroDivisionError).
CompareFault(high, normal) ==
    IF FpsColumn(high) = <<>> THEN 275
    ELSE IF normal = <<>> THEN 0
    ELSE IF FpsColumn(normal) = <<>> THEN 276
    ELSE IF SumSeq(FpsColumn(normal)) = 0 THEN 281
    ELSE IF SumSeq(Column(normal, "bitrate")) = 0 THEN 290
    ELSE IF SumSeq(Column(normal, "duration")) = 0 THEN 299
    ELSE IF SumSeq(Column(normal, "pixels_per_frame")) = 0 THEN 316
    ELSE 0

\* "High Outliers vs Normal Clips": the only comparison there is
Compare ==
    /\ pc = "compare"
    /\ IF high_outliers = <<>>
       THEN /\ pc' = "findings"
            /\ UNCHANGED <<normal_clips, diagnosed, outcome, fault_line>>
       ELSE LET normal == NormalOf(clips_data, quart)
                line == CompareFault(high_outliers, normal)
            IN  /\ normal_clips' = normal
                /\ IF line # 0
                   THEN Fault(line) /\ diagnosed' = diagnosed
                   ELSE /\ diagnosed' = diagnosed \cup {"high"}
                        /\ pc' = "findings"
                        /\ UNCHANGED <<outcome, fault_line>>
    /\ UNCHANGED <<dir_exists, mp4_files, i, scan_vars, res_groups, fps_groups,
                   audio_groups, reported, quart, high_outliers, low_outliers,
                   findings>>

\* abs((h/n - 1) * 100) > FindingPct for the means h = hs/hl, n = ns/nl
PctOver(hs, hl, ns, nl) ==
    Abs(hs * nl - ns * hl) * 100 > FindingPct * Abs(ns * hl)

\* abs(high_audio_pct - normal_audio_pct) > AudioPts
AudioOver(hc, hl, nc, nl) ==
    Abs(hc * nl - nc * hl) * 100 > AudioPts * hl * nl

MeanOver(high, normal) == PctOver(SumSeq(high), Len(high), SumSeq(normal), Len(normal))

\* the fields appended to findings
KeyFindings(high, normal) ==
    {f \in {"fps"} : MeanOver(FpsColumn(high), FpsColumn(normal))}
    \cup {f \in {"bitrate"} :
            MeanOver(Column(high, "bitrate"), Column(normal, "bitrate"))}
    \cup {f \in {"pixels_per_frame"} :
            MeanOver(Column(high, "pixels_per_frame"),
                     Column(normal, "pixels_per_frame"))}
    \cup {f \in {"has_audio"} :
            AudioOver(AudioCount(high), Len(high), AudioCount(normal), Len(normal))}

\* "Key Findings", inside "if high_outliers:"
Findings ==
    /\ pc = "findings"
    /\ findings' = IF high_outliers # <<>> /\ normal_clips # <<>>
                   THEN KeyFindings(high_outliers, normal_clips)
                   ELSE findings
    /\ pc' = "finish"
    /\ UNCHANGED <<dir_exists, mp4_files, i, scan_vars, res_groups, fps_groups,
                   audio_groups, reported, quart, high_outliers, low_outliers,
                   normal_clips, diagnosed, outcome, fault_line>>

\* the errors are printed; return clips_data
Finish ==
    /\ pc = "finish"
    /\ Return("returned")
    /\ UNCHANGED <<dir_exists, mp4_files, i, scan_vars, report_vars, fault_line>>

Next ==
    \/ Start
    \/ OpenFile
    \/ ReadAndAppend
    \/ CloseFile
    \/ LoopExit
    \/ Correlate
    \/ Detect
    \/ ListOutliers
    \/ Compare
    \/ Findings
    \/ Finish

\* the run over a directory of readable clips
Spec == Init /\ [][Next]_vars

\* the run over a directory of clips that fail at any step
SpecScan == InitScan /\ [][Next]_vars

\* the run over one clip of any size and duration
SpecBuild == InitBuild /\ [][Next]_vars

\* ================================================================ claims

InSeq(c, s) == \E k \in 1..Len(s) : s[k] = c

\* how many entries of s carry filename k
Entries(s, k) == Cardinality({n \in 1..Len(s) : s[n].filename = k})

\* the loop is between two files, or over
BetweenFiles == pc \notin {"start", "opened", "appended"}

\* the report has reached or passed the outlier comparison
Classified == pc \in {"compare", "findings", "finish"} \/ outcome = "returned"

\* the correlation tables have been printed
Grouped == pc \in {"detect", "list", "compare", "findings", "finish"}

\* ---- C1
\* C1: between two files and after the loop, every file processed so far has
\* exactly one entry, in clips_data or in errors and not in both;
\* file_count = len(clips_data) and file_count + len(errors) is the number
\* of files processed.
C1_ExactlyOneList ==
    BetweenFiles =>
        /\ \A k \in 1..(i - 1) :
             Entries(clips_data, k) + Entries(errors, k) = 1
        /\ file_count = Len(clips_data)
        /\ file_count + Len(errors) = i - 1

\* ---- C2
\* C2: at most one metadata handle is open at any point, and none is open
\* when the loop moves on to the next file or has ended.
C2_HandlesClosed ==
    /\ Cardinality(open_handles) <= 1
    /\ BetweenFiles => open_handles = {}

\* ---- C3
\* C3: no run ends in an unhandled fault; a run that ends without a
\* successful record has computed no statistic, and a run with at least one
\* successful record ends by returning the records.
C3_NoFault ==
    /\ outcome # "fault"
    /\ outcome \in {"dir_missing", "no_files", "no_clips"} =>
         file_count = 0 /\ quart = <<>> /\ reported = NoReport
    /\ (pc = "done" /\ file_count > 0) => outcome = "returned"

\* ---- C4
\* the normal group's mean of one compared field is 0
ZeroNormalMean(normal) ==
    \/ SumSeq(FpsColumn(normal)) = 0
    \/ \E f \in {"bitrate", "duration", "pixels_per_frame"} :
         SumSeq(Column(normal, f)) = 0

\* C4: with at least one high outlier and a non-empty normal group of
\* which a field's mean is 0, the comparison does not divide by zero: the
\* run does not end in a fault raised by one of the four divisions.
C4_ZeroMeanGuarded ==
    (/\ high_outliers # <<>>
     /\ normal_clips # <<>>
     /\ ZeroNormalMean(normal_clips))
        => ~(outcome = "fault" /\ fault_line \in {281, 290, 299, 316})

\* ---- C5
\* C5 (as stated): for every record, bytes_per_second and bitrate are 0
\* exactly when the duration is 0, and are file_size / duration and
\* file_size * 8 / duration when the duration is positive.
C5_ZeroIffNoDuration ==
    \A k \in 1..Len(clips_data) :
        LET c == clips_data[k]
        IN  /\ (c.bytes_per_second = 0) <=> (c.duration = 0)
            /\ (c.bitrate = 0) <=> (c.duration = 0)
            /\ c.duration > 0 =>
                 /\ c.bytes_per_second * c.duration = c.file_size * Unit
                 /\ c.bitrate * c.duration = c.file_size * 8 * Unit

\* C5 (amended): for every record, bytes_per_second and bitrate are 0
\* exactly when the duration is not positive or the file is empty, and are
\* file_size / duration and file_size * 8 / duration when the duration is
\* positive.
C5_ZeroIffNoRate ==
    \A k \in 1..Len(clips_data) :
        LET c == clips_data[k]
        IN  /\ (c.bytes_per_second = 0) <=> (c.duration <= 0 \/ c.file_size = 0)
            /\ (c.bitrate = 0) <=> (c.duration <= 0 \/ c.file_size = 0)
            /\ c.duration > 0 =>
                 /\ c.bytes_per_second * c.duration = c.file_size * Unit
                 /\ c.bitrate * c.duration = c.file_size * 8 * Unit

\* an empty file of positive duration has been recorded
C5_Witness ==
    /\ pc = "appended"
    /\ Last(clips_data).file_size = 0
    /\ Last(clips_data).duration > 0

\* ---- C6
RECURSIVE TotalSamples(_, _)
TotalSamples(groups, keys) ==
    IF keys = {} THEN 0
    ELSE LET k == CHOOSE x \in keys : TRUE
         IN  Len(groups[k]) + TotalSamples(groups, keys \ {k})

\* the samples of the records of data that satisfy T, in order
SamplesOf(data, T(_)) == BpsList(SelectSeq(data, T))

\* C6: in each of the three dimensions every group holds exactly the
\* bytes_per_second samples of the records with its key, every record's
\* key has a group, and the group sizes add up to the number of records.
C6_GroupsPartition ==
    Grouped =>
        /\ \A k \in 1..Len(clips_data) :
             /\ clips_data[k].resolution \in DOMAIN res_groups
             /\ FpsKey(clips_data[k]) \in DOMAIN fps_groups
             /\ AudioKey(clips_data[k]) \in DOMAIN audio_groups
        /\ \A key \in DOMAIN res_groups :
             LET T(c) == c.resolution = key
             IN  res_groups[key] = SamplesOf(clips_data, T)
        /\ \A key \in DOMAIN fps_groups :
             LET T(c) == FpsKey(c) = key
             IN  fps_groups[key] = SamplesOf(clips_data, T)
        /\ \A key \in DOMAIN audio_groups :
             LET T(c) == AudioKey(c) = key
             IN  audio_groups[key] = SamplesOf(clips_data, T)
        /\ TotalSamples(res_groups, DOMAIN res_groups) = Len(clips_data)
        /\ TotalSamples(fps_groups, DOMAIN fps_groups) = Len(clips_data)
        /\ TotalSamples(audio_groups, DOMAIN audio_groups) = Len(clips_data)

\* several groups in every dimension, one of them the absent-fps group,
\* and a group of more than one sample
C6_Witness ==
    /\ pc = "detect"
    /\ Cardinality(DOMAIN res_groups) >= 2
    /\ Cardinality(DOMAIN fps_groups) >= 3
    /\ 0 \in DOMAIN fps_groups
    /\ \E key \in DOMAIN res_groups : Len(res_groups[key]) >= 2
    /\ audio_groups["with_audio"] # <<>>
    /\ audio_groups["without_audio"] # <<>>

C8_OneClass ==
    Classified =>
        LET normal == NormalOf(clips_data, quart)
        IN  /\ \A k \in 1..Len(clips_data) :
                 LET c == clips_data[k]
                     x == c.bytes_per_second * FenceScale
                 IN  /\ InSeq(c, low_outliers) <=> x < lower_bound(quart)
                     /\ InSeq(c, high_outliers) <=> x > upper_bound(quart)
                     /\ InSeq(c, normal) <=>
                          ~InSeq(c, low_outliers) /\ ~InSeq(c, high_outliers)
                     /\ ~(InSeq(c, low_outliers) /\ InSeq(c, high_outliers))
            /\ Len(high_outliers) + Len(low_outliers) + Len(normal)
                 = Len(clips_data)
            /\ normal # <<>>
            /\ (high_outliers # <<>> /\ pc # "compare") => normal_clips = normal

\* a high outlier has been compared against a normal group of several
\* clips
C8_Witness ==
    /\ pc = "findings"
    /\ high_outliers # <<>>
    /\ Len(normal_clips) >= 2
    /\ Len(normal_clips) + Len(high_outliers) = Len(clips_data)

\* ---- C9
\* abs(percent_diff) > FindingPct for a field of two non-empty groups
FieldOver(group, normal, field) ==
    IF field = "fps" THEN MeanOver(FpsColumn(group), FpsColumn(normal))
    ELSE MeanOver(Column(group, field), Column(normal, field))

\* C9: in a run that reaches its end, each non-empty outlier class has
\* been compared against the normal clips, and a continuous field (fps,
\* bitrate, pixels per frame, duration) is in the findings exactly when
\* its percentage difference exceeds FindingPct in absolute value, the
\* audio field exactly when the rate difference exceeds AudioPts points.
C9_AllClassesAllFields ==
    outcome = "returned" =>
        /\ high_outliers # <<>> => "high" \in diagnosed
        /\ low_outliers # <<>> => "low" \in diagnosed
        /\ high_outliers # <<>> =>
             /\ \A f \in {"fps", "bitrate", "pixels_per_frame", "duration"} :
                  f \in findings <=> FieldOver(high_outliers, normal_clips, f)
             /\ "has_audio" \in findings <=>
                  AudioOver(AudioCount(high_outliers), Len(high_outliers),
                            AudioCount(normal_clips), Len(normal_clips))

\* ---- C10
\* One cut point at position k * (n + 1) / NQuant, counted from 1, between
\* the order statistics of a sample of at least 3 values, times NQuant.
ExclusiveCut(d, k) ==
    LET p == k * (Len(d) + 1)
        j == p \div NQuant
        r == p % NQuant
    IN  IF r = 0 THEN d[j] * NQuant
        ELSE d[j] * (NQuant - r) + d[j + 1] * r

\* C10 (as stated): q1 and q3 are the first and third cut points of the
\* inclusive method, and min <= q1 <= q3 <= max for at least 2 values.
C10_InclusiveQuartiles ==
    (quart # <<>> /\ Len(clips_data) >= 2) =>
        LET d == Sorted(BpsList(clips_data))
        IN  /\ quart[1] = InclusiveCut(d, 1)
            /\ quart[2] = InclusiveCut(d, NQuant - 1)
            /\ NQuant * d[1] <= quart[1]
            /\ quart[1] <= quart[2]
            /\ quart[2] <= NQuant * d[Len(d)]

\* C10 (amended): q1 and q3 are the first and third cut points of the
\* exclusive method (position k * (n + 1) / 4 between the order
\* statistics); q1 <= q3 for at least 2 values; min <= q1 and q3 <= max for
\* at least 3 values; for 2 values q1 = min - (max - min) / 4 and
\* q3 = max + (max - min) / 4.
C10_ExclusiveQuartiles ==
    (quart # <<>> /\ Len(clips_data) >= 2) =>
        LET d == Sorted(BpsList(clips_data))
            n == Len(d)
        IN  /\ quart[1] <= quart[2]
            /\ n >= 3 =>
                 /\ quart[1] = ExclusiveCut(d, 1)
                 /\ quart[2] = ExclusiveCut(d, NQuant - 1)
                 /\ NQuant * d[1] <= quart[1]
                 /\ quart[2] <= NQuant * d[n]
            /\ n = 2 =>
                 /\ quart[1] = NQuant * d[1] - (d[2] - d[1])
                 /\ quart[2] = NQuant * d[2] + (d[2] - d[1])

\* the quartiles of two different values lie outside the sample
C10_Witness ==
    /\ pc = "list"
    /\ Len(clips_data) = 2
    /\ quart[1] < NQuant * MinSeq(BpsList(clips_data))
    /\ quart[2] > NQuant * MaxSeq(BpsList(clips_data))

====
